---- MODULE Spec2Model ----
(***************************************************************************)
(* Lease and payment lifecycle of the property-management backend:         *)
(* Lease.save (status derivation, date repair, version), the lease REST    *)
(* endpoints (create, update, renew), the two daily sweeps, and the        *)
(* payment writers (REST endpoints, mark_paid, Stripe webhook).            *)
(*                                                                         *)
(* Calendar dates are proleptic Gregorian ordinals (date.toordinal()), so  *)
(* that timedelta arithmetic is integer addition while replace(year=...)   *)
(* and weekday() keep their calendar meaning.                              *)
(***************************************************************************)
EXTENDS Integers, Sequences, FiniteSets, TLC

----------------------------------------------------------------------------
(* Calendar arithmetic used by the code (datetime.date)                     *)

IsLeap(y) == (y % 4 = 0) /\ ((y % 100 # 0) \/ (y % 400 = 0))

DaysInMonth(y, m) ==
    IF m = 2 THEN (IF IsLeap(y) THEN 29 ELSE 28)
    ELSE IF m \in {4, 6, 9, 11} THEN 30 ELSE 31

DaysBeforeMonthTable == <<0, 31, 59, 90, 120, 151, 181, 212, 243, 273, 304, 334>>

DaysBeforeMonth(y, m) ==
    DaysBeforeMonthTable[m] + (IF m > 2 /\ IsLeap(y) THEN 1 ELSE 0)

DaysBeforeYear(y) ==
    LET p == y - 1 IN p * 365 + (p \div 4) - (p \div 100) + (p \div 400)

\* date(y, m, d).toordinal()
Ymd2Ord(y, m, d) == DaysBeforeYear(y) + DaysBeforeMonth(y, m) + d

\* date.fromordinal(n) as a record [y, m, d]
Ord2Ymd(n) ==
    LET n0   == n - 1
        n400 == n0 \div 146097
        r400 == n0 % 146097
        n100 == r400 \div 36524
        r100 == r400 % 36524
        n4   == r100 \div 1461
        r4   == r100 % 1461
        n1   == r4 \div 365
        r1   == r4 % 365
        year == n400 * 400 + 1 + n100 * 100 + n4 * 4 + n1
    IN  IF n1 = 4 \/ n100 = 4
        THEN [y |-> year - 1, m |-> 12, d |-> 31]
        ELSE LET guess == (r1 + 50) \div 32
                 month == IF DaysBeforeMonth(year, guess) > r1 THEN guess - 1 ELSE guess
             IN  [y |-> year, m |-> month, d |-> r1 - DaysBeforeMonth(year, month) + 1]

\* date.weekday(): Monday is 0
Weekday(n) == (n + 6) % 7

----------------------------------------------------------------------------
(* Bounds of the exploration                                                *)

MaxDays == 2          \* the clock runs from Day0 to Day0 + MaxDays
MaxVersion == 3       \* no update is started on a row whose version reached this
MaxLeases == 2        \* lease rows (primary keys 1..MaxLeases)
MaxPayments == 2      \* payment rows (primary keys 1..MaxPayments)
MaxWorkers == 2       \* worker processes running at the same time
MaxSent == 2          \* expiry notifications counted per lease and date
LifeDays == 62        \* the days a lease is followed through its daily runs

Day0 == Ymd2Ord(2024, 3, 9)        \* a Saturday; Day0 + 2 is a Monday
Feb29 == Ymd2Ord(2024, 2, 29)

LeaseIds == 1..MaxLeases
PayIds == 1..MaxPayments
Workers == 1..MaxWorkers

\* the dates of the round-trip scenario
ScenarioToday == Ymd2Ord(2024, 6, 1)
ScenarioStart == Ymd2Ord(2024, 1, 1)
ScenarioEnd == Ymd2Ord(2024, 12, 31)

\* the dates whose year is replaced (today and the start dates), converted once
CalendarDays ==
    ((Day0 - 100)..(Day0 + LifeDays)) \cup ((Day0 - 100)..(Day0 + MaxDays))
      \cup {ScenarioToday, ScenarioStart}
Calendar == [n \in CalendarDays |-> Ord2Ymd(n)]

\* d.replace(year=d.year + k) raises ValueError when the day does not exist
\* in the target year (29 February)
ShiftYearsOk(n, k) ==
    LET c == Calendar[n]
    IN  c.y + k >= 1 /\ c.y + k <= 9999 /\ c.d <= DaysInMonth(c.y + k, c.m)

ShiftYears(n, k) == LET c == Calendar[n] IN Ymd2Ord(c.y + k, c.m, c.d)

\* start.replace(year=start.year + 1)
PlusOneYearOk(n) == ShiftYearsOk(n, 1)
PlusOneYear(n) == ShiftYears(n, 1)

----------------------------------------------------------------------------
(* Program constants                                                        *)

STATUS_CHOICES == {"draft", "pending", "active", "expired", "terminated"}
DefaultStatus == "draft"
DefaultVersion == 1
DefaultUnits == 1
MinDurationDays == 30
MaxDurationDays == 3650
MaxMonthlyRent == 100000
StartPastYears == 10
StartFutureYears == 2
EndFutureYears == 20
DaysPerRenewalMonth == 30
MaxRenewalNoticeDays == 365
DefaultRenewalMonths == 12
Intervals == {60, 30, 15, 7}

PAYMENT_STATUS_CHOICES == {"pending", "paid", "overdue", "refunded", "failed"}
DefaultPaymentStatus == "pending"
DueSoonDays == 3
Monday == 0

\* users: user_type and ownership of the (single) property
Users == {"admin", "owner", "owner2", "tenant"}
UserType(u) == IF u = "owner2" THEN "owner" ELSE u
PropertyOwner == "owner"

----------------------------------------------------------------------------
(* Values a model instance can hold in a DateField before save(): a date    *)
(* object or a string "y-m-d" still to be parsed                            *)

DateObj(n) == [isstr |-> FALSE, ord |-> n, y |-> 0, m |-> 0, d |-> 0]
DateStr(y, m, d) == [isstr |-> TRUE, ord |-> 0, y |-> y, m |-> m, d |-> d]

\* None in a DateField of an instance (no date has ordinal 0)
NoneDate == [isstr |-> FALSE, ord |-> 0, y |-> 0, m |-> 0, d |-> 0]

\* datetime.strptime(s, '%Y-%m-%d') succeeds
StrptimeOk(v) ==
    /\ v.y \in 1..9999
    /\ v.m \in 1..12
    /\ v.d >= 1 /\ v.d <= DaysInMonth(v.y, v.m)

Strptime(v) == Ymd2Ord(v.y, v.m, v.d)

----------------------------------------------------------------------------
(* Lease.save                                                               *)

NoLease == [exists |-> FALSE, start |-> 0, end |-> 0, status |-> "draft",
            version |-> 0, rent |-> 0, tenant |-> 0]

\* lines 110-117: a string start date is parsed, today on failure
SaveStart(obj, td) ==
    IF obj.start.isstr
    THEN (IF StrptimeOk(obj.start) THEN Strptime(obj.start) ELSE td)
    ELSE obj.start.ord

\* lines 119-126: a string end date is parsed, start + 1 year on failure
SaveEndParsedOk(obj, td) ==
    obj.end.isstr /\ ~StrptimeOk(obj.end) => PlusOneYearOk(SaveStart(obj, td))

SaveEndParsed(obj, td) ==
    IF obj.end.isstr
    THEN (IF StrptimeOk(obj.end) THEN Strptime(obj.end)
          ELSE PlusOneYear(SaveStart(obj, td)))
    ELSE obj.end.ord

\* line 130: the condition under which the end date is replaced
EndNeedsRepair(start, end) == end < start

\* lines 128-132
SaveEndOk(obj, td) ==
    /\ SaveEndParsedOk(obj, td)
    /\ (EndNeedsRepair(SaveStart(obj, td), SaveEndParsed(obj, td))
          => PlusOneYearOk(SaveStart(obj, td)))

SaveEnd(obj, td) ==
    LET s == SaveStart(obj, td)
        e == SaveEndParsed(obj, td)
    IN  IF EndNeedsRepair(s, e) THEN PlusOneYear(s) ELSE e

\* the derivation without the guard on "terminated"
DeriveStatusNotSticky(status, start, end, td) ==
    IF td > end THEN "expired"
    ELSE IF td >= start THEN "active"
    ELSE status

\* the derivation expiring a lease on its end date already
DeriveStatusEndExclusive(status, start, end, td) ==
    IF status # "terminated"
    THEN (IF td >= end THEN "expired"
          ELSE IF td >= start THEN "active"
          ELSE status)
    ELSE status

\* lines 134-144
DeriveStatus(status, start, end, td) ==
    IF status # "terminated"
    THEN (IF td > end THEN "expired"
          ELSE IF td >= start THEN "active"
          ELSE status)
    ELSE status

\* the version bumped on the initial create as well
SaveVersionAlways(obj) == obj.version + 1

\* lines 146-148
SaveVersion(obj) == IF obj.pk THEN obj.version + 1 ELSE obj.version

\* save() raises (ValueError of replace) and nothing is written
SaveOk(obj, td) == SaveEndOk(obj, td)

\* the row written by super().save()
SavedRow(obj, td) ==
    LET s == SaveStart(obj, td)
        e == SaveEnd(obj, td)
    IN  [exists  |-> TRUE,
         start   |-> s,
         end     |-> e,
         status  |-> DeriveStatus(obj.status, s, e, td),
         version |-> SaveVersion(obj),
         rent    |-> obj.rent,
         tenant  |-> obj.tenant]

\* a row loaded from the database (Lease.objects.get / a queryset item)
Loaded(row) ==
    [start |-> DateObj(row.start), end |-> DateObj(row.end), status |-> row.status,
     version |-> row.version, rent |-> row.rent, tenant |-> row.tenant, pk |-> TRUE]

----------------------------------------------------------------------------
(* State                                                                    *)

VARIABLES
    today,      \* timezone.now().date(), as an ordinal
    leases,     \* the lease table: primary key -> row
    payments,   \* the payment table: primary key -> row
    prop,       \* the property the leases belong to
    resp,       \* the last operation, its target and its HTTP-style outcome
    notes,      \* notification calls made by the last operation, per kind and row
    sent,       \* notify_lease_expiry calls per lease: on the current date, and ever
    inflight    \* per worker process: the request or task it is in the middle of

vars == <<today, leases, payments, prop, resp, notes, sent, inflight>>

NoProperty == [exists |-> FALSE, version |-> 0, units |-> 0]

NoPayment == [exists |-> FALSE, lease |-> 0, date |-> 0, due |-> 0, status |-> "pending",
              method |-> "", txn |-> "", processor |-> "", processed_by |-> "",
              processed_at |-> 0]

NoneSent == [day  |-> [i \in LeaseIds |-> 0],
             life |-> [i \in LeaseIds |-> 0]]

\* a worker between requests; a worker that has loaded rows holds the
\* operation, the ids still to be saved and the rows as it read them
Idle == [op |-> "idle", todo |-> {}, rows |-> <<>>]

NoNotes == [expiry  |-> [i \in LeaseIds |-> 0],
            created |-> [i \in LeaseIds |-> 0],
            due     |-> [p \in PayIds |-> 0],
            overdue |-> [p \in PayIds |-> 0]]

\* saved: the rows the operation wrote
\* status_set: the request body assigned the status field
\* value: the number a read operation returned
\* arg: the field value a property was read on
Resp(op, id, code, saved) ==
    [op |-> op, id |-> id, code |-> code, saved |-> saved, status_set |-> FALSE,
     value |-> 0, arg |-> <<>>]

\* optional request fields: <<>> is "not supplied"
Get(opt, default) == IF opt = <<>> THEN default ELSE opt[1]

----------------------------------------------------------------------------
(* Inputs drawn by the operations                                           *)

StartInputs == {Day0 - 100, Feb29, Day0 + 1}
EndInputs == {Day0 - 50, Day0 + 1, Day0 - 100 + MaxDurationDays}
RentInputs == {1000}
NewRentInputs == {<<>>, <<1500>>}
MonthsInputs == {<<>>, <<1>>}
\* strings handed to the ORM: one that parses, one that does not
StringInputs == {DateStr(2024, 3, 10), DateStr(2024, 2, 30)}

\* an optional field over a set of values
Opt(S) == {<<>>} \cup {<<x>> : x \in S}
Has(opt) == opt # <<>>

\* request bodies of the lease endpoints
LeaseData ==
    [start : Opt(StartInputs), end : Opt(EndInputs),
     rent : Opt(RentInputs), status : Opt(STATUS_CHOICES)]

NoData == [start |-> <<>>, end |-> <<>>, rent |-> <<>>, status |-> <<>>]

\* the lease whose life the lifecycle specification follows
LifecycleRows == {1}

\* field values handed directly to Lease.objects.create
OrmDateInputs(dates) == {DateObj(n) : n \in dates} \cup StringInputs

----------------------------------------------------------------------------
(* LeaseViewSet and LeaseSerializer                                         *)

\* get_queryset: the rows the caller can address; anything else is a 404
LeaseVisible(u) ==
    IF UserType(u) = "admin" THEN TRUE
    ELSE IF UserType(u) \in {"owner", "manager"} THEN PropertyOwner = u
    ELSE FALSE

\* validate_lease_start_date / validate_lease_end_date / validate_monthly_rent
FieldValidatorsRaise(data, td) ==
    \/ Has(data.start) /\ ~(ShiftYearsOk(td, 0 - StartPastYears)
                             /\ ShiftYearsOk(td, StartFutureYears))
    \/ Has(data.end) /\ ~ShiftYearsOk(td, EndFutureYears)

FieldsValid(data, td) ==
    /\ Has(data.start) =>
          /\ data.start[1] >= ShiftYears(td, 0 - StartPastYears)
          /\ data.start[1] <= ShiftYears(td, StartFutureYears)
    /\ Has(data.end) => data.end[1] <= ShiftYears(td, EndFutureYears)
    /\ Has(data.rent) => data.rent[1] >= 0 /\ data.rent[1] <= MaxMonthlyRent
    /\ Has(data.status) => data.status[1] \in STATUS_CHOICES
    /\ ("notice" \in DOMAIN data /\ Has(data.notice)) =>
          data.notice[1] >= 0 /\ data.notice[1] <= MaxRenewalNoticeDays

\* LeaseSerializer.validate: only when both dates are in the request data
DatesValid(data) ==
    (Has(data.start) /\ Has(data.end)) =>
        /\ data.end[1] > data.start[1]
        /\ data.end[1] - data.start[1] >= MinDurationDays
        /\ data.end[1] - data.start[1] <= MaxDurationDays

\* fields without a default: required unless the request is a PATCH
RequiredPresent(data) == Has(data.start) /\ Has(data.end) /\ Has(data.rent)

\* attributes of a Lease instance; notify_lease_created reads security_deposit
LeaseAttributes ==
    {"property_obj", "tenant", "lease_start_date", "lease_end_date", "signed_date",
     "monthly_rent", "deposit_amount", "pet_deposit", "late_fee", "lease_document_url",
     "status", "auto_renew", "renewal_notice_days", "notes", "version",
     "created_at", "updated_at"}

NotifyLeaseCreatedReads ==
    {"property_obj", "lease_start_date", "lease_end_date", "monthly_rent",
     "security_deposit", "tenant"}

\* the post_save receiver of a create returns normally
CreatedSignalOk == NotifyLeaseCreatedReads \subseteq LeaseAttributes

\* primary keys are handed out in order
NextLeaseId(i) == ~leases[i].exists /\ \A j \in LeaseIds : j < i => leases[j].exists

\* the tenant column: a Tenant primary key, or NULL
NoTenant == 0

\* the tenant a request names: NoTenant for null; a body written without the
\* field stands for one naming a tenant no other lease has (tenant i for lease i)
TenantOf(i, data) == IF "tenant" \in DOMAIN data THEN data.tenant ELSE i

\* unique_together (property_obj, tenant, lease_start_date), all leases being
\* of one property: as the serializer's validator and as the table's
\* constraint it passes a NULL tenant and excludes the row itself
UniqueTogetherOk(i, tenant, start) ==
    \/ tenant = NoTenant
    \/ ~\E j \in LeaseIds \ {i} :
           leases[j].exists /\ leases[j].tenant = tenant /\ leases[j].start = start

\* the instance POST builds from validated data
NewInstance(start, end, status, rent) ==
    [start |-> start, end |-> end, status |-> status,
     version |-> DefaultVersion, rent |-> rent, tenant |-> NoTenant, pk |-> FALSE]

\* POST /api/leases/
ApiCreateLease(i, u, data) ==
    /\ prop.exists
    /\ NextLeaseId(i)
    /\ UNCHANGED <<today, sent, inflight, payments, prop>>
    /\ IF FieldValidatorsRaise(data, today)
       THEN /\ resp' = Resp("create", i, 500, {})
            /\ UNCHANGED <<leases, notes>>
       ELSE IF ~(RequiredPresent(data) /\ FieldsValid(data, today)
                 /\ UniqueTogetherOk(i, TenantOf(i, data), data.start[1])
                 /\ DatesValid(data))
       THEN /\ resp' = Resp("create", i, 400, {})
            /\ UNCHANGED <<leases, notes>>
       ELSE LET obj == [NewInstance(DateObj(data.start[1]), DateObj(data.end[1]),
                                    IF Has(data.status) THEN data.status[1]
                                    ELSE DefaultStatus,
                                    data.rent[1])
                          EXCEPT !.tenant = TenantOf(i, data)]
            IN  IF ~SaveOk(obj, today)
                THEN /\ resp' = Resp("create", i, 500, {})
                     /\ UNCHANGED <<leases, notes>>
                ELSE /\ leases' = [leases EXCEPT ![i] = SavedRow(obj, today)]
                     /\ notes' = [NoNotes EXCEPT !.created[i] = 1]
                     /\ resp' = [Resp("create", i,
                                      IF CreatedSignalOk THEN 201 ELSE 500, {i})
                                   EXCEPT !.status_set = Has(data.status)]

\* the instance PUT/PATCH saves: the loaded row with the supplied fields set
UpdatedInstance(row, data) ==
    [Loaded(row) EXCEPT
        !.start  = IF Has(data.start) THEN DateObj(data.start[1]) ELSE @,
        !.end    = IF Has(data.end) THEN DateObj(data.end[1]) ELSE @,
        !.rent   = IF Has(data.rent) THEN data.rent[1] ELSE @,
        !.status = IF Has(data.status) THEN data.status[1] ELSE @,
        !.tenant = IF "tenant" \in DOMAIN data THEN data.tenant ELSE @]

\* PUT (partial = FALSE) and PATCH (partial = TRUE) /api/leases/{id}/
ApiUpdateLease(i, u, partial, data) ==
    /\ leases[i].exists
    /\ leases[i].version < MaxVersion
    /\ UNCHANGED <<today, sent, inflight, payments, prop>>
    /\ notes' = NoNotes
    /\ IF ~LeaseVisible(u)
       THEN /\ resp' = Resp("update", i, 404, {})
            /\ UNCHANGED leases
       ELSE IF FieldValidatorsRaise(data, today)
       THEN /\ resp' = Resp("update", i, 500, {})
            /\ UNCHANGED leases
       ELSE IF ~((partial \/ RequiredPresent(data))
                 /\ FieldsValid(data, today)
                 /\ UniqueTogetherOk(i, UpdatedInstance(leases[i], data).tenant,
                                     UpdatedInstance(leases[i], data).start.ord)
                 /\ DatesValid(data))
       THEN /\ resp' = Resp("update", i, 400, {})
            /\ UNCHANGED leases
       ELSE LET obj == UpdatedInstance(leases[i], data)
            IN  IF ~SaveOk(obj, today)
                THEN /\ resp' = Resp("update", i, 500, {})
                     /\ UNCHANGED leases
                ELSE /\ leases' = [leases EXCEPT ![i] = SavedRow(obj, today)]
                     /\ resp' = [Resp("update", i, 200, {i}) EXCEPT
                                     !.status_set = Has(data.status)]

\* renew adding a twelfth of a 365-day year per month
RenewedInstanceYearly(row, months, new_rent) ==
    [Loaded(row) EXCEPT
        !.end    = DateObj(row.end + (365 * Get(months, DefaultRenewalMonths)) \div 12),
        !.rent   = IF new_rent # <<>> /\ new_rent[1] # 0 THEN new_rent[1] ELSE @,
        !.status = "active"]

\* lines 78-89 of renew: the instance handed to save()
RenewedInstance(row, months, new_rent) ==
    [Loaded(row) EXCEPT
        !.end    = DateObj(row.end + DaysPerRenewalMonth * Get(months, DefaultRenewalMonths)),
        !.rent   = IF new_rent # <<>> /\ new_rent[1] # 0 THEN new_rent[1] ELSE @,
        !.status = "active"]

\* POST /api/leases/{id}/renew/
Renew(i, u, months, new_rent) ==
    /\ leases[i].exists
    /\ leases[i].version < MaxVersion
    /\ UNCHANGED <<today, sent, inflight, payments, prop>>
    /\ notes' = NoNotes
    /\ IF ~LeaseVisible(u)
       THEN /\ resp' = Resp("renew", i, 404, {})
            /\ UNCHANGED leases
       ELSE IF PropertyOwner # u /\ UserType(u) # "admin"
       THEN /\ resp' = Resp("renew", i, 403, {})
            /\ UNCHANGED leases
       ELSE LET obj == RenewedInstance(leases[i], months, new_rent)
            IN  IF ~SaveOk(obj, today)
                THEN /\ resp' = Resp("renew", i, 500, {})
                     /\ UNCHANGED leases
                ELSE /\ leases' = [leases EXCEPT ![i] = SavedRow(obj, today)]
                     /\ resp' = Resp("renew", i, 200, {i})

\* Lease.objects.create(...) outside the serializer (management command, tests)
OrmCreateLease(i, start, end, status, rent) ==
    /\ prop.exists
    /\ NextLeaseId(i)
    /\ UNCHANGED <<today, sent, inflight, payments, prop>>
    /\ LET obj == [NewInstance(start, end, status, rent) EXCEPT !.tenant = i]
       IN  IF ~(SaveOk(obj, today) /\ UniqueTogetherOk(i, obj.tenant, SaveStart(obj, today)))
           THEN /\ resp' = Resp("orm_create", i, 500, {})
                /\ UNCHANGED <<leases, notes>>
           ELSE /\ leases' = [leases EXCEPT ![i] = SavedRow(obj, today)]
                /\ notes' = [NoNotes EXCEPT !.created[i] = 1]
                /\ resp' = [Resp("orm_create", i,
                                 IF CreatedSignalOk THEN 201 ELSE 500, {i})
                              EXCEPT !.status_set = TRUE]

\* days_remaining without the floor at 0
DaysRemainingSigned(end, td) ==
    IF end = NoneDate THEN 0
    ELSE IF end.isstr THEN 0
    ELSE end.ord - td

\* Lease.days_remaining on an instance whose lease_end_date holds end: 0 for
\* None (line 85), 0 for a string (str - date raises TypeError, line 90),
\* otherwise max(0, days)
DaysRemaining(end, td) ==
    IF end = NoneDate THEN 0
    ELSE IF end.isstr THEN 0
    ELSE IF end.ord - td > 0 THEN end.ord - td ELSE 0

\* lease.days_remaining read on a stored row or on an instance not yet saved
ReadDaysRemaining(end) ==
    /\ resp' = [Resp("days_remaining", 0, 200, {}) EXCEPT
                   !.value = DaysRemaining(end, today), !.arg = <<end>>]
    /\ notes' = NoNotes
    /\ UNCHANGED <<today, sent, inflight, leases, payments, prop>>

\* The same endpoints as two steps of a worker process, other workers running
\* in between: self.get_object() reads the row, and the handler's save()
\* writes every column of the instance built from that read. No transaction,
\* row lock or version comparison joins the two.

\* get_object() of update (op = "update") and of renew (op = "renew") by the owner
GetLease(w, i, op) ==
    /\ inflight[w].todo = {}
    /\ leases[i].exists
    /\ leases[i].version < MaxVersion
    /\ inflight' = [inflight EXCEPT ![w] = [op |-> op, todo |-> {i},
                                            rows |-> [j \in {i} |-> leases[i]]]]
    /\ UNCHANGED <<today, sent, leases, payments, prop, resp, notes>>

\* a worker that has answered holds the row as its response showed it
Answered(w, op, i, row) ==
    [inflight EXCEPT ![w] = [op |-> op, todo |-> {}, rows |-> [j \in {i} |-> row]]]

\* the rest of PUT/PATCH: validation, then serializer.save() on the instance read
SaveUpdate(w, partial, data) ==
    /\ inflight[w].op = "update"
    /\ inflight[w].todo # {}
    /\ UNCHANGED <<today, sent, payments, prop>>
    /\ notes' = NoNotes
    /\ LET i == CHOOSE j \in inflight[w].todo : TRUE
           row == inflight[w].rows[i]
           obj == UpdatedInstance(row, data)
       IN  IF FieldValidatorsRaise(data, today) \/ ~SaveOk(obj, today)
           THEN /\ resp' = Resp("update", i, 500, {})
                /\ inflight' = [inflight EXCEPT ![w] = Idle]
                /\ UNCHANGED leases
           ELSE IF ~((partial \/ RequiredPresent(data))
                     /\ FieldsValid(data, today)
                     /\ UniqueTogetherOk(i, obj.tenant, obj.start.ord)
                     /\ DatesValid(data))
           THEN /\ resp' = Resp("update", i, 400, {})
                /\ inflight' = [inflight EXCEPT ![w] = Idle]
                /\ UNCHANGED leases
           ELSE /\ leases' = [leases EXCEPT ![i] = SavedRow(obj, today)]
                /\ resp' = [Resp("update", i, 200, {i}) EXCEPT
                                !.status_set = Has(data.status)]
                /\ inflight' = Answered(w, "updated", i, SavedRow(obj, today))

\* the rest of renew: lines 78-93 on the instance read
SaveRenew(w, months, new_rent) ==
    /\ inflight[w].op = "renew"
    /\ inflight[w].todo # {}
    /\ UNCHANGED <<today, sent, payments, prop>>
    /\ notes' = NoNotes
    /\ LET i == CHOOSE j \in inflight[w].todo : TRUE
           obj == RenewedInstance(inflight[w].rows[i], months, new_rent)
       IN  IF ~SaveOk(obj, today)
           THEN /\ resp' = Resp("renew", i, 500, {})
                /\ inflight' = [inflight EXCEPT ![w] = Idle]
                /\ UNCHANGED leases
           ELSE /\ leases' = [leases EXCEPT ![i] = SavedRow(obj, today)]
                /\ resp' = Resp("renew", i, 200, {i})
                /\ inflight' = Answered(w, "renewed", i, SavedRow(obj, today))

\* DELETE /api/tenants/{id}/: the owners' queryset filters on
\* leases__property__owner, a path the Lease model does not have (its key is
\* property_obj), so only an admin reaches the row; the delete sets the tenant
\* column of the tenant's leases to NULL (on_delete SET_NULL, no Lease.save)
DeleteTenant(t, u) ==
    /\ \E i \in LeaseIds : leases[i].exists /\ leases[i].tenant = t
    /\ notes' = NoNotes
    /\ UNCHANGED <<today, sent, inflight, payments, prop>>
    /\ IF UserType(u) = "admin"
       THEN /\ leases' = [i \in LeaseIds |->
                            IF leases[i].exists /\ leases[i].tenant = t
                            THEN [leases[i] EXCEPT !.tenant = NoTenant]
                            ELSE leases[i]]
            /\ resp' = Resp("delete_tenant", t, 204, {})
       ELSE /\ resp' = Resp("delete_tenant", t,
                            IF UserType(u) \in {"owner", "manager"} THEN 500 ELSE 404, {})
            /\ UNCHANGED leases

----------------------------------------------------------------------------
(* leases/tasks.py: check_lease_expiries                                    *)

\* the filter without its status condition
ExpiresOnAnyStatus(row, date) == row.exists /\ row.end = date

\* line 23: Lease.objects.filter(lease_end_date=expiry_date, status="active")
ExpiresOn(row, date) == row.exists /\ row.end = date /\ row.status = "active"

\* notify_lease_expiry calls one run makes for a row
ExpiryCalls(row, td) ==
    Cardinality({k \in Intervals : ExpiresOn(row, td + k)})
      + (IF ExpiresOn(row, td) THEN 1 ELSE 0)

\* line 34: the lease.save() of the day-of-expiry loop
SweepSave(row, td) ==
    IF ExpiresOn(row, td) /\ SaveOk(Loaded(row), td)
    THEN SavedRow(Loaded(row), td)
    ELSE row

\* one run of check_lease_expiries on the date td
SweepRun(td) ==
    /\ leases' = [i \in LeaseIds |-> SweepSave(leases[i], td)]
    /\ notes' = [NoNotes EXCEPT !.expiry = [i \in LeaseIds |-> ExpiryCalls(leases[i], td)]]
    /\ resp' = Resp("lease_sweep", 0, 200,
                    {i \in LeaseIds : ExpiresOn(leases[i], td)
                                        /\ SaveOk(Loaded(leases[i]), td)})
    /\ UNCHANGED <<payments, prop, inflight>>

\* the calls of a run on td added to the counts (day: the calls counted on
\* that date before the run)
Counted(day, td) ==
    [day  |-> [i \in LeaseIds |-> day[i] + ExpiryCalls(leases[i], td)],
     life |-> [i \in LeaseIds |-> sent.life[i] + ExpiryCalls(leases[i], td)]]

\* a run at any moment (the task called again on the same date included)
LeaseExpirySweep ==
    /\ \A i \in LeaseIds : ExpiresOn(leases[i], today) => leases[i].version < MaxVersion
    /\ \A i \in LeaseIds : sent.day[i] + ExpiryCalls(leases[i], today) <= MaxSent
    /\ UNCHANGED today
    /\ SweepRun(today)
    /\ sent' = Counted(sent.day, today)

\* the beat schedule: the run of the next date, 86400 s after the last one
DailyBeat ==
    /\ today < Day0 + LifeDays
    /\ \A i \in LeaseIds : ExpiresOn(leases[i], today + 1) => leases[i].version < MaxVersion
    /\ today' = today + 1
    /\ SweepRun(today + 1)
    /\ sent' = Counted(NoneSent.day, today + 1)

\* The task as the steps of a worker process. The interval loops and the query
\* of the day-of-expiry loop (lines 14-29): the rows are read once, when the
\* loop starts; the beat schedule starts one run at a time.
LeaseSweepLoad(w) ==
    /\ inflight[w].todo = {}
    /\ \A v \in Workers : inflight[v].op # "lease_sweep"
    /\ \A i \in LeaseIds : ExpiresOn(leases[i], today) => leases[i].version < MaxVersion
    /\ \A i \in LeaseIds : sent.day[i] + ExpiryCalls(leases[i], today) <= MaxSent
    /\ LET sel == {i \in LeaseIds : ExpiresOn(leases[i], today)}
           calls == [i \in LeaseIds |->
                       Cardinality({k \in Intervals : ExpiresOn(leases[i], today + k)})]
       IN  /\ inflight' = [inflight EXCEPT ![w] =
                   IF sel = {} THEN Idle
                   ELSE [op |-> "lease_sweep", todo |-> sel,
                         rows |-> [i \in sel |-> leases[i]]]]
           /\ notes' = [NoNotes EXCEPT !.expiry = calls]
           /\ sent' = [day  |-> [i \in LeaseIds |-> sent.day[i] + calls[i]],
                       life |-> [i \in LeaseIds |-> sent.life[i] + calls[i]]]
    /\ resp' = Resp("lease_sweep", 0, 200, {})
    /\ UNCHANGED <<today, leases, payments, prop>>

\* One pass of the day-of-expiry loop (lines 30-34) on a row read at the
\* start, the rows in -lease_start_date order: notify, then lease.save() of
\* the instance as read; an exception of save() ends the task
LeaseSweepSave(w) ==
    /\ inflight[w].op = "lease_sweep"
    /\ \E i \in inflight[w].todo :
          /\ \A j \in inflight[w].todo : inflight[w].rows[j].start <= inflight[w].rows[i].start
          /\ LET obj == Loaded(inflight[w].rows[i])
             IN  /\ notes' = [NoNotes EXCEPT !.expiry[i] = 1]
                 /\ sent' = [sent EXCEPT !.day[i] = @ + 1, !.life[i] = @ + 1]
                 /\ IF SaveOk(obj, today)
                    THEN /\ leases' = [leases EXCEPT ![i] = SavedRow(obj, today)]
                         /\ resp' = Resp("lease_sweep", i, 200, {i})
                         /\ inflight' = [inflight EXCEPT ![w] =
                                 IF inflight[w].todo = {i} THEN Idle
                                 ELSE [@ EXCEPT !.todo = @ \ {i}]]
                    ELSE /\ resp' = Resp("lease_sweep", i, 500, {})
                         /\ inflight' = [inflight EXCEPT ![w] = Idle]
                         /\ UNCHANGED leases
    /\ UNCHANGED <<today, payments, prop>>

----------------------------------------------------------------------------
(* payments: RentPayment rows and their writers                             *)

DueInputs == {Day0, Day0 + 1, Day0 + 4}
MethodInputs == {"check"}
TxnInputs == {<<>>, <<"txn_1">>}
\* the payment the payment lifecycle follows: of lease 1, dated Day0
PaidLeases == {1}
PaymentDates == {Day0}
PaymentData ==
    [lease : PaidLeases, date : PaymentDates, due : DueInputs, method : MethodInputs,
     status : Opt(PAYMENT_STATUS_CHOICES)]

\* fields and attributes of the RentPayment model (the foreign key is lease_obj)
PaymentModelNames ==
    {"id", "lease_obj", "amount", "payment_date", "due_date", "payment_method",
     "status", "transaction_id", "payment_processor", "late_fee", "notes",
     "processed_by", "processed_at", "created_at", "updated_at", "is_late",
     "total_amount"}

\* RentPaymentSerializer: fields declared on the class, and Meta.fields
SerializerDeclared ==
    {"lease_property_name", "lease_tenant_name", "is_late", "total_amount",
     "processed_by_name"}

\* Meta.fields naming the foreign key as the model does
SerializerMetaFieldsOfModel ==
    {"id", "lease_obj", "lease_property_name", "lease_tenant_name", "amount",
     "payment_date", "due_date", "payment_method", "status", "transaction_id",
     "payment_processor", "late_fee", "total_amount", "notes", "processed_by",
     "processed_by_name", "processed_at", "is_late", "created_at", "updated_at"}

SerializerMetaFields ==
    {"id", "lease", "lease_property_name", "lease_tenant_name", "amount",
     "payment_date", "due_date", "payment_method", "status", "transaction_id",
     "payment_processor", "late_fee", "total_amount", "notes", "processed_by",
     "processed_by_name", "processed_at", "is_late", "created_at", "updated_at"}

SerializerReadOnly == {"id", "created_at", "updated_at", "is_late", "total_amount"}

\* ModelSerializer builds its fields only when every name in Meta.fields is
\* declared or names a model field; otherwise it raises ImproperlyConfigured
SerializerBuilds == SerializerMetaFields \subseteq (SerializerDeclared \cup PaymentModelNames)

\* the request may set status
StatusWritable == "status" \in SerializerMetaFields \ SerializerReadOnly

\* get_queryset: the lookup path filtered on by owners, managers and tenants
QuerysetLookup == "lease"
QuerysetResolves == QuerysetLookup \in PaymentModelNames

\* mark_paid reads payment.lease
MarkPaidReads == "lease"
MarkPaidResolves == MarkPaidReads \in PaymentModelNames

\* 200 = row found, 404 = hidden by the queryset, 500 = the filter raises
PaymentLookup(u) ==
    IF UserType(u) = "admin" THEN 200
    ELSE IF UserType(u) \in {"owner", "manager", "tenant"}
    THEN (IF ~QuerysetResolves THEN 500
          ELSE IF u = PropertyOwner THEN 200 ELSE 404)
    ELSE 404

NextPaymentId(p) == ~payments[p].exists /\ \A q \in PayIds : q < p => payments[q].exists

NewPayment(lease, date, due, method, status) ==
    [exists |-> TRUE, lease |-> lease, date |-> date, due |-> due, status |-> status,
     method |-> method, txn |-> "", processor |-> "", processed_by |-> "",
     processed_at |-> 0]

\* the constraint keyed on the due date instead of the payment date
UniquePaymentOkByDueDate(p, lease, date) ==
    ~\E q \in PayIds \ {p} :
        payments[q].exists /\ payments[q].lease = lease /\ payments[q].due = date

\* unique_together (lease_obj, payment_date): no other row of the lease has
\* the payment date
UniquePaymentOk(p, lease, date) ==
    ~\E q \in PayIds \ {p} :
        payments[q].exists /\ payments[q].lease = lease /\ payments[q].date = date

\* RentPayment.objects.create(...) outside the serializer (tests): the status
\* is the model default or the one the caller passes; a duplicate of
\* (lease_obj, payment_date) raises IntegrityError and writes nothing
OrmCreatePayment(p, lease, date, due, method, status) ==
    /\ NextPaymentId(p)
    /\ notes' = NoNotes
    /\ UNCHANGED <<today, sent, inflight, leases, prop>>
    /\ IF ~UniquePaymentOk(p, lease, date)
       THEN /\ resp' = Resp("orm_create_payment", p, 500, {})
            /\ UNCHANGED payments
       ELSE /\ payments' = [payments EXCEPT ![p] = NewPayment(lease, date, due, method, status)]
            /\ resp' = Resp("orm_create_payment", p, 201, {p})

\* POST /api/payments/
ApiCreatePayment(p, u, data) ==
    /\ NextPaymentId(p)
    /\ notes' = NoNotes
    /\ UNCHANGED <<today, sent, inflight, leases, prop>>
    /\ IF ~SerializerBuilds
       THEN /\ resp' = Resp("create_payment", p, 500, {})
            /\ UNCHANGED payments
       ELSE IF ~UniquePaymentOk(p, data.lease, data.date)
       THEN /\ resp' = Resp("create_payment", p, 400, {})
            /\ UNCHANGED payments
       ELSE /\ payments' = [payments EXCEPT ![p] =
                   NewPayment(data.lease, data.date, data.due, data.method,
                              IF StatusWritable THEN Get(data.status, DefaultPaymentStatus)
                              ELSE DefaultPaymentStatus)]
            /\ resp' = Resp("create_payment", p, 201, {p})

\* PUT/PATCH /api/payments/{id}/
ApiUpdatePayment(p, u, data) ==
    /\ payments[p].exists
    /\ notes' = NoNotes
    /\ UNCHANGED <<today, sent, inflight, leases, prop>>
    /\ IF PaymentLookup(u) # 200
       THEN /\ resp' = Resp("update_payment", p, PaymentLookup(u), {})
            /\ UNCHANGED payments
       ELSE IF ~SerializerBuilds
       THEN /\ resp' = Resp("update_payment", p, 500, {})
            /\ UNCHANGED payments
       ELSE /\ payments' = [payments EXCEPT
                   ![p].due = data.due,
                   ![p].method = data.method,
                   ![p].status = IF StatusWritable THEN Get(data.status, @) ELSE @]
            /\ resp' = Resp("update_payment", p, 200, {p})

\* is_late counting the due date itself as late
IsLateFromDueDate(row, td) ==
    row.status = "overdue" \/ (row.status \in {"pending", "failed"} /\ td >= row.due)

\* RentPayment.is_late
IsLate(row, td) ==
    row.status = "overdue" \/ (row.status \in {"pending", "failed"} /\ td > row.due)

\* payment.is_late read on a loaded row (1 = True, 0 = False)
ReadIsLate(p) ==
    /\ payments[p].exists
    /\ resp' = [Resp("is_late", p, 200, {}) EXCEPT
                   !.value = IF IsLate(payments[p], today) THEN 1 ELSE 0]
    /\ notes' = NoNotes
    /\ UNCHANGED <<today, sent, inflight, leases, payments, prop>>

\* the status mark_paid writes
MarkPaidStatus == "paid"

\* POST /api/payments/{id}/mark_paid/
MarkPaid(p, u, txn) ==
    /\ payments[p].exists
    /\ notes' = NoNotes
    /\ UNCHANGED <<today, sent, inflight, leases, prop>>
    /\ IF PaymentLookup(u) # 200
       THEN /\ resp' = Resp("mark_paid", p, PaymentLookup(u), {})
            /\ UNCHANGED payments
       ELSE IF ~MarkPaidResolves
       THEN /\ resp' = Resp("mark_paid", p, 500, {})
            /\ UNCHANGED payments
       ELSE IF u # PropertyOwner /\ UserType(u) # "admin"
       THEN /\ resp' = Resp("mark_paid", p, 403, {})
            /\ UNCHANGED payments
       ELSE /\ payments' = [payments EXCEPT
                   ![p].status = MarkPaidStatus,
                   ![p].processed_by = u,
                   ![p].processed_at = today,
                   ![p].txn = Get(txn, @)]
            /\ resp' = Resp("mark_paid", p, 200, {p})

\* the status the checkout.session.completed handler writes
WebhookStatus == "paid"

\* POST of the payment processor: a bad signature is a 400, another event
\* type or an unknown payment id changes nothing
StripeWebhook(p, signed, completed) ==
    /\ notes' = NoNotes
    /\ UNCHANGED <<today, sent, inflight, leases, prop>>
    /\ IF ~signed
       THEN /\ resp' = Resp("webhook", p, 400, {})
            /\ UNCHANGED payments
       ELSE /\ resp' = Resp("webhook", p, 200,
                            IF completed /\ payments[p].exists THEN {p} ELSE {})
            /\ IF completed /\ payments[p].exists
               THEN payments' = [payments EXCEPT
                       ![p].status = WebhookStatus,
                       ![p].method = "online",
                       ![p].txn = "pi_1",
                       ![p].processor = "stripe",
                       ![p].processed_at = today]
               ELSE UNCHANGED payments

----------------------------------------------------------------------------
(* payments/tasks.py: check_payment_due_dates                               *)

\* lines 16-19
DueSoon(row, td) == row.exists /\ row.due = td + DueSoonDays /\ row.status = "pending"

\* rule 2 selecting every pending payment whose due date has passed
NewlyOverduePastDue(row, td) == row.exists /\ row.due < td /\ row.status = "pending"

\* lines 25-28
NewlyOverdue(row, td) == row.exists /\ row.due = td - 1 /\ row.status = "pending"

\* lines 29-31
MarkOverdue(row, td) == IF NewlyOverdue(row, td) THEN [row EXCEPT !.status = "overdue"] ELSE row

\* the weekly branch taking Sunday for day 0 of the week
WeeklyRunSundayFirst(td) == (Weekday(td) + 1) % 7 = Monday

\* line 35
WeeklyRun(td) == Weekday(td) = Monday

\* lines 36-38, evaluated on the table as rule 2 left it
WeeklyCalls(row, td) ==
    IF WeeklyRun(td) /\ row.exists /\ row.status = "overdue" THEN 1 ELSE 0

\* notify_payment_overdue calls one run makes for a row
OverdueCalls(row, td) ==
    (IF NewlyOverdue(row, td) THEN 1 ELSE 0) + WeeklyCalls(MarkOverdue(row, td), td)

PaymentSweep ==
    /\ payments' = [p \in PayIds |-> MarkOverdue(payments[p], today)]
    /\ notes' = [NoNotes EXCEPT
                   !.due = [p \in PayIds |-> IF DueSoon(payments[p], today) THEN 1 ELSE 0],
                   !.overdue = [p \in PayIds |-> OverdueCalls(payments[p], today)]]
    /\ resp' = Resp("payment_sweep", 0, 200,
                    {p \in PayIds : NewlyOverdue(payments[p], today)})
    /\ UNCHANGED <<today, sent, inflight, leases, prop>>

\* The sweep as the steps of a worker process. Rule 1 and the query of rule 2
\* (lines 15-28): the rows are read once, when the loop starts; the beat
\* schedule starts one run at a time.
PaymentSweepLoad(w) ==
    /\ inflight[w].todo = {}
    /\ \A v \in Workers : inflight[v].op # "payment_sweep"
    /\ LET sel == {p \in PayIds : NewlyOverdue(payments[p], today)}
       IN  /\ inflight' = [inflight EXCEPT ![w] =
                   IF sel = {} THEN Idle
                   ELSE [op |-> "payment_sweep", todo |-> sel,
                         rows |-> [p \in sel |-> payments[p]]]]
           /\ notes' = [NoNotes EXCEPT
                   !.due = [p \in PayIds |-> IF DueSoon(payments[p], today) THEN 1 ELSE 0],
                   !.overdue = [p \in PayIds |->
                       IF sel = {} THEN WeeklyCalls(payments[p], today) ELSE 0]]
    /\ resp' = Resp("payment_sweep", 0, 200, {})
    /\ UNCHANGED <<today, sent, leases, payments, prop>>

\* the write of an instance read earlier: payment.save() writes every column
ClobberedRow(snapshot) == [snapshot EXCEPT !.status = "overdue"]

\* One pass of the loop of rule 2 (lines 29-32) on a row read at the start,
\* the rows in -payment_date order; after the last row, rule 3 (lines 35-38)
PaymentSweepSave(w) ==
    /\ inflight[w].op = "payment_sweep"
    /\ \E p \in inflight[w].todo :
          /\ \A q \in inflight[w].todo : inflight[w].rows[q].date <= inflight[w].rows[p].date
          /\ LET written == [payments EXCEPT ![p] = ClobberedRow(inflight[w].rows[p])]
                 last == inflight[w].todo = {p}
             IN  /\ payments' = written
                 /\ inflight' = [inflight EXCEPT ![w] =
                         IF last THEN Idle ELSE [@ EXCEPT !.todo = @ \ {p}]]
                 /\ notes' = [NoNotes EXCEPT !.overdue = [q \in PayIds |->
                         (IF q = p THEN 1 ELSE 0)
                           + (IF last THEN WeeklyCalls(written[q], today) ELSE 0)]]
                 /\ resp' = Resp("payment_sweep", p, 200, {p})
    /\ UNCHANGED <<today, sent, leases, prop>>

----------------------------------------------------------------------------
(* properties/models.py: Property.save                                      *)

\* lines 182-186: the version written by save()
PropertySaveVersion(row) == IF row.exists THEN row.version + 1 ELSE DefaultVersion

\* Property.objects.create(...) and every later property_obj.save()
PropertySave ==
    /\ prop.version < MaxVersion
    /\ prop' = [exists  |-> TRUE,
                version |-> PropertySaveVersion(prop),
                units   |-> IF prop.exists THEN prop.units ELSE DefaultUnits]
    /\ resp' = Resp("property_save", 0, 200, {})
    /\ notes' = NoNotes
    /\ UNCHANGED <<today, sent, inflight, leases, payments>>

\* the filter looking at the stored status alone
ActiveNowStatusOnly(row, td) == row.exists /\ row.status = "active"

\* the filter of both aggregates: status "active" and today within the dates
ActiveNow(row, td) ==
    /\ row.exists
    /\ row.status = "active"
    /\ row.start <= td
    /\ row.end >= td

\* round(x, 2) of the quotient a / b (a >= 0, b > 0), in hundredths: to the
\* nearest, a tie to the even neighbour
RoundHundredths(a, b) ==
    LET q == (100 * a) \div b
        r == (100 * a) % b
    IN  IF 2 * r < b THEN q
        ELSE IF 2 * r > b THEN q + 1
        ELSE IF q % 2 = 0 THEN q ELSE q + 1

\* Property.get_occupancy_rate, in hundredths of a percent
GetOccupancyRate(units, td) ==
    IF units <= 0 THEN 0
    ELSE LET active_leases == Cardinality({i \in LeaseIds : ActiveNow(leases[i], td)})
             rate == RoundHundredths(active_leases * 100, units)
         IN  IF rate < 0 THEN 0 ELSE IF rate > 100 * 100 THEN 100 * 100 ELSE rate

RECURSIVE SumRent(_)
SumRent(S) ==
    IF S = {} THEN 0
    ELSE LET i == CHOOSE j \in S : TRUE IN leases[i].rent + SumRent(S \ {i})

\* the income summed over every lease of the property
GetMonthlyIncomeAllLeases(td) == SumRent({i \in LeaseIds : leases[i].exists})

\* Property.get_monthly_income
GetMonthlyIncome(td) ==
    LET rows == {i \in LeaseIds : ActiveNow(leases[i], td)}
        total_rent == SumRent(rows)
    IN  IF rows = {} THEN 0
        ELSE IF total_rent < 0 THEN 0 ELSE total_rent

\* GET of the property: the serializer calls get_occupancy_rate
ReadOccupancyRate ==
    /\ prop.exists
    /\ resp' = [Resp("occupancy_rate", 0, 200, {}) EXCEPT
                   !.value = GetOccupancyRate(prop.units, today)]
    /\ notes' = NoNotes
    /\ UNCHANGED <<today, sent, inflight, leases, payments, prop>>

\* GET of the property: the serializer calls get_monthly_income
ReadMonthlyIncome ==
    /\ prop.exists
    /\ resp' = [Resp("monthly_income", 0, 200, {}) EXCEPT
                   !.value = GetMonthlyIncome(today)]
    /\ notes' = NoNotes
    /\ UNCHANGED <<today, sent, inflight, leases, payments, prop>>

----------------------------------------------------------------------------
(* The clock                                                                *)

Tick ==
    /\ today < Day0 + MaxDays
    /\ today' = today + 1
    /\ resp' = Resp("tick", 0, 0, {})
    /\ notes' = NoNotes
    /\ sent' = [sent EXCEPT !.day = NoneSent.day]
    /\ UNCHANGED <<leases, payments, prop, inflight>>

----------------------------------------------------------------------------
(* The lease lifecycle                                                      *)

Init ==
    /\ today = Day0
    /\ leases = [i \in LeaseIds |-> NoLease]
    /\ payments = [p \in PayIds |-> NoPayment]
    /\ prop = [exists |-> TRUE, version |-> DefaultVersion, units |-> DefaultUnits]
    /\ resp = Resp("init", 0, 0, {})
    /\ notes = NoNotes
    /\ sent = NoneSent
    /\ inflight = [w \in Workers |-> Idle]

\* bodies tried: a caller the queryset hides gets the same answer whatever the
\* body; a PUT is tried with every complete body and with an empty one
PatchBodies == {d \in LeaseData : ~Has(d.rent)}
PutBodies == {d \in LeaseData : RequiredPresent(d)} \cup {NoData}
BodiesOf(u, partial) ==
    IF ~LeaseVisible(u) THEN {NoData}
    ELSE IF partial THEN PatchBodies
    ELSE PutBodies

Next ==
    \/ \E i \in LifecycleRows, u \in {"owner"}, data \in LeaseData :
           ApiCreateLease(i, u, data)
    \/ \E i \in LifecycleRows, u \in {"owner", "owner2"}, partial \in BOOLEAN :
           \E data \in BodiesOf(u, partial) : ApiUpdateLease(i, u, partial, data)
    \/ \E i \in LifecycleRows, u \in Users, months \in MonthsInputs,
          new_rent \in NewRentInputs :
           Renew(i, u, months, new_rent)
    \/ \E i \in LifecycleRows, start \in OrmDateInputs(StartInputs),
          end \in OrmDateInputs(EndInputs), status \in STATUS_CHOICES, rent \in RentInputs :
           OrmCreateLease(i, start, end, status, rent)
    \/ LeaseExpirySweep
    \/ Tick

Spec == Init /\ [][Next]_vars

\* the lifecycle driven through the REST endpoints and the sweep only
ApiNext ==
    \/ \E i \in LifecycleRows, u \in {"owner"}, data \in LeaseData :
           ApiCreateLease(i, u, data)
    \/ \E i \in LifecycleRows, u \in {"owner", "owner2"}, partial \in BOOLEAN :
           \E data \in BodiesOf(u, partial) : ApiUpdateLease(i, u, partial, data)
    \/ \E i \in LifecycleRows, u \in Users, months \in MonthsInputs,
          new_rent \in NewRentInputs :
           Renew(i, u, months, new_rent)
    \/ LeaseExpirySweep
    \/ Tick

ApiSpec == Init /\ [][ApiNext]_vars

\* the version counters of a property and of its lease, from before the
\* property is created
VersionInit ==
    /\ today = Day0
    /\ leases = [i \in LeaseIds |-> NoLease]
    /\ payments = [p \in PayIds |-> NoPayment]
    /\ prop = NoProperty
    /\ resp = Resp("init", 0, 0, {})
    /\ notes = NoNotes
    /\ sent = NoneSent
    /\ inflight = [w \in Workers |-> Idle]

StatusBodies == {d \in PatchBodies : ~Has(d.start) /\ ~Has(d.end)}

VersionNext ==
    \/ PropertySave
    \/ \E i \in LifecycleRows, data \in PutBodies : ApiCreateLease(i, "owner", data)
    \/ \E i \in LifecycleRows, data \in StatusBodies :
           ApiUpdateLease(i, "owner", TRUE, data)
    \/ \E i \in LifecycleRows, u \in Users, months \in MonthsInputs,
          new_rent \in NewRentInputs :
           Renew(i, u, months, new_rent)
    \/ \E i \in LifecycleRows, start \in OrmDateInputs(StartInputs),
          end \in OrmDateInputs(EndInputs), status \in STATUS_CHOICES, rent \in RentInputs :
           OrmCreateLease(i, start, end, status, rent)
    \/ LeaseExpirySweep
    \/ Tick

VersionSpec == VersionInit /\ [][VersionNext]_vars

\* renew driven with every kind of renewal_months a request body can carry:
\* absent, positive, negative
RenewMonthsInputs == {<<>>, <<1>>, <<0 - 12>>}

RenewNext ==
    \/ \E i \in LifecycleRows, data \in PutBodies : ApiCreateLease(i, "owner", data)
    \/ \E i \in LifecycleRows, u \in Users, months \in RenewMonthsInputs,
          new_rent \in NewRentInputs :
           Renew(i, u, months, new_rent)
    \/ LeaseExpirySweep
    \/ Tick

RenewSpec == Init /\ [][RenewNext]_vars

\* the round trip: today fixed at 2024-06-01, leases 2024-01-01..2024-12-31
\* created, updated (rent, status) and renewed by 12 months
ScenarioInit ==
    /\ today = ScenarioToday
    /\ leases = [i \in LeaseIds |-> NoLease]
    /\ payments = [p \in PayIds |-> NoPayment]
    /\ prop = [exists |-> TRUE, version |-> DefaultVersion, units |-> DefaultUnits]
    /\ resp = Resp("init", 0, 0, {})
    /\ notes = NoNotes
    /\ sent = NoneSent
    /\ inflight = [w \in Workers |-> Idle]

ScenarioRents == {2000, 2200}

ScenarioCreateBodies ==
    [start : {<<ScenarioStart>>}, end : {<<ScenarioEnd>>}, rent : {<<2000>>},
     status : Opt(STATUS_CHOICES)]

ScenarioPatchBodies ==
    [start : {<<>>}, end : {<<>>}, rent : Opt(ScenarioRents), status : Opt(STATUS_CHOICES)]

ScenarioMonths == {<<>>, <<DefaultRenewalMonths>>}

ScenarioNext ==
    \/ \E i \in LeaseIds, data \in ScenarioCreateBodies : ApiCreateLease(i, "owner", data)
    \/ \E i \in LifecycleRows, data \in ScenarioPatchBodies :
           ApiUpdateLease(i, "owner", TRUE, data)
    \/ \E i \in LifecycleRows, u \in Users, months \in ScenarioMonths,
          new_rent \in NewRentInputs :
           Renew(i, u, months, new_rent)

ScenarioSpec == ScenarioInit /\ [][ScenarioNext]_vars

\* a lease followed through its daily runs: created (already running, or
\* starting later) with an end date LifeDays - 1 days ahead, dates never changed
DailyBodies ==
    [start : {<<Day0 - 100>>, <<Day0 + 20>>}, end : {<<Day0 + LifeDays - 1>>},
     rent : Opt(RentInputs), status : Opt(STATUS_CHOICES)]

DailyNext ==
    \/ \E i \in LifecycleRows, data \in DailyBodies : ApiCreateLease(i, "owner", data)
    \/ DailyBeat

DailySpec == Init /\ [][DailyNext]_vars

\* the same with the beat schedule never failing to start the run of the
\* next date
DailyLiveSpec == DailySpec /\ WF_vars(DailyBeat)

\* leases ending 30, 8 and 1 days ahead, swept at any moment of any date
SweepEnds == {Day0 + 30, Day0 + 8, Day0 + 1}

SweepBodies ==
    [start : {<<Day0 - 100>>, <<Day0 - 50>>}, end : Opt(SweepEnds),
     rent : Opt(RentInputs), status : Opt(STATUS_CHOICES)]

SweepNext ==
    \/ \E i \in LifecycleRows, data \in SweepBodies : ApiCreateLease(i, "owner", data)
    \/ LeaseExpirySweep
    \/ Tick

SweepSpec == Init /\ [][SweepNext]_vars

\* request bodies of the validation tests: end before start, 14 days, 50 and
\* 160 days, more than 3650 days; a negative rent; renewal_notice_days in and
\* outside 0..365 (the field is validated, the model's row does not keep it)
ValidationBodies ==
    [start : Opt({Day0 - 100, Day0 + 1}),
     end : Opt({Day0 - 101, Day0 - 86, Day0 - 50, Day0 + 60, Day0 + 2 + MaxDurationDays}),
     rent : Opt({1000, 0 - 1000}), status : {<<>>},
     notice : Opt({30, 0 - 1, MaxRenewalNoticeDays + 1})]

ValidationNext ==
    \/ \E i \in LifecycleRows, data \in ValidationBodies : ApiCreateLease(i, "owner", data)
    \/ \E i \in LifecycleRows, partial \in BOOLEAN, data \in ValidationBodies :
           ApiUpdateLease(i, "owner", partial, data)
    \/ Tick

ValidationSpec == Init /\ [][ValidationNext]_vars

\* a property created with any number of units, its leases and the two
\* aggregates read at any moment
UnitInputs == {0 - 1, 0, 1, 2, 3, 5}

PortfolioInit ==
    /\ today = Day0
    /\ leases = [i \in LeaseIds |-> NoLease]
    /\ payments = [p \in PayIds |-> NoPayment]
    /\ prop \in [exists : {TRUE}, version : {DefaultVersion}, units : UnitInputs]
    /\ resp = Resp("init", 0, 0, {})
    /\ notes = NoNotes
    /\ sent = NoneSent
    /\ inflight = [w \in Workers |-> Idle]

\* a lease running until tomorrow, a lease starting tomorrow that the caller
\* declares active, and a terminated lease
PortfolioBodies ==
    {[start |-> <<Day0 - 100>>, end |-> <<Day0 + 1>>, rent |-> <<1000>>, status |-> <<>>],
     [start |-> <<Day0 + 1>>, end |-> <<Day0 - 100 + MaxDurationDays>>,
      rent |-> <<1500>>, status |-> <<"active">>],
     [start |-> <<Day0 - 100>>, end |-> <<Day0 - 100 + MaxDurationDays>>,
      rent |-> <<1500>>, status |-> <<"terminated">>]}

PortfolioNext ==
    \/ \E i \in LeaseIds, data \in PortfolioBodies : ApiCreateLease(i, "owner", data)
    \/ ReadOccupancyRate
    \/ ReadMonthlyIncome
    \/ Tick

PortfolioSpec == PortfolioInit /\ [][PortfolioNext]_vars

\* leases of one property created for tenant 1, for tenant 2 or without a
\* tenant, their start dates changed, tenants deleted
TenantIds == {1, 2}

UniqueBodies ==
    [start : Opt({Day0 - 100, Day0 - 99}), end : {<<Day0 + 60>>}, rent : {<<1000>>},
     status : {<<>>}, tenant : TenantIds \cup {NoTenant}]

UniqueNext ==
    \/ \E i \in LeaseIds, data \in UniqueBodies : ApiCreateLease(i, "owner", data)
    \/ \E i \in LeaseIds, data \in UniqueBodies : ApiUpdateLease(i, "owner", TRUE, data)
    \/ \E t \in TenantIds, u \in {"admin", "owner"} : DeleteTenant(t, u)

UniqueSpec == Init /\ [][UniqueNext]_vars

\* two workers updating the same lease (rent, status) at the same time
ConcurrentNext ==
    \/ \E i \in LifecycleRows, data \in ScenarioCreateBodies : ApiCreateLease(i, "owner", data)
    \/ \E w \in Workers, i \in LifecycleRows : GetLease(w, i, "update")
    \/ \E w \in Workers, data \in ScenarioPatchBodies : SaveUpdate(w, TRUE, data)

ConcurrentSpec == ScenarioInit /\ [][ConcurrentNext]_vars

\* a lease ending today or tomorrow, renewed while the expiry task of its
\* last day is running
RenewRaceNext ==
    \/ \E i \in LifecycleRows, end \in {Day0, Day0 + 1} :
           ApiCreateLease(i, "owner", [start |-> <<Day0 - 100>>, end |-> <<end>>,
                                       rent |-> <<1000>>, status |-> <<>>])
    \/ \E w \in Workers, i \in LifecycleRows : GetLease(w, i, "renew")
    \/ \E w \in Workers, months \in MonthsInputs, new_rent \in NewRentInputs :
           SaveRenew(w, months, new_rent)
    \/ \E w \in Workers : LeaseSweepLoad(w)
    \/ \E w \in Workers : LeaseSweepSave(w)
    \/ Tick

RenewRaceSpec == Init /\ [][RenewRaceNext]_vars

\* days_remaining read on the stored leases and on instances holding a date,
\* a string or None as their end date
UnsavedEnds == OrmDateInputs({Day0 - 50, Day0, Day0 + 1, Day0 + 30}) \cup {NoneDate}

RemainingNext ==
    \/ \E i \in LeaseIds, data \in PortfolioBodies : ApiCreateLease(i, "owner", data)
    \/ \E i \in LeaseIds : leases[i].exists /\ ReadDaysRemaining(Loaded(leases[i]).end)
    \/ \E end \in UnsavedEnds : ReadDaysRemaining(end)
    \/ Tick

RemainingSpec == Init /\ [][RemainingNext]_vars

----------------------------------------------------------------------------
(* The payment lifecycle                                                    *)

PayNext ==
    \/ \E p \in PayIds, lease \in PaidLeases, date \in PaymentDates, due \in DueInputs,
          method \in MethodInputs, status \in {DefaultPaymentStatus, "paid"} :
           OrmCreatePayment(p, lease, date, due, method, status)
    \/ \E p \in PayIds, u \in Users, data \in PaymentData : ApiCreatePayment(p, u, data)
    \/ \E p \in PayIds, u \in Users, data \in PaymentData : ApiUpdatePayment(p, u, data)
    \/ \E p \in PayIds, u \in Users, txn \in TxnInputs : MarkPaid(p, u, txn)
    \/ \E p \in PayIds, signed \in BOOLEAN, completed \in BOOLEAN :
           StripeWebhook(p, signed, completed)
    \/ PaymentSweep
    \/ Tick

PaySpec == Init /\ [][PayNext]_vars

\* payments of two leases recorded for two billing cycles, directly and
\* through the endpoint
BillingDates == {Day0, Day0 + 30}

BillingNext ==
    \/ \E p \in PayIds, lease \in LeaseIds, date \in BillingDates, due \in {Day0, Day0 + 1},
          method \in MethodInputs, status \in {DefaultPaymentStatus, "paid"} :
           OrmCreatePayment(p, lease, date, due, method, status)
    \/ \E p \in PayIds, u \in {"admin", "owner"},
          data \in [lease : LeaseIds, date : BillingDates, due : {Day0}, method : MethodInputs,
                    status : {<<>>}] :
           ApiCreatePayment(p, u, data)

BillingSpec == Init /\ [][BillingNext]_vars

\* a payment due yesterday or today, paid through the checkout webhook or by
\* mark_paid while the sweep of the day is running
RaceNext ==
    \/ \E p \in PayIds, lease \in PaidLeases, date \in PaymentDates,
          due \in {Day0 - 1, Day0}, method \in MethodInputs :
           OrmCreatePayment(p, lease, date, due, method, DefaultPaymentStatus)
    \/ \E p \in PayIds, u \in {"admin", "owner"}, txn \in TxnInputs : MarkPaid(p, u, txn)
    \/ \E p \in PayIds, signed \in BOOLEAN, completed \in BOOLEAN :
           StripeWebhook(p, signed, completed)
    \/ \E w \in Workers : PaymentSweepLoad(w)
    \/ \E w \in Workers : PaymentSweepSave(w)
    \/ Tick

RaceSpec == Init /\ [][RaceNext]_vars

\* payments recorded with any of the five statuses, is_late read on any date
LateNext ==
    \/ \E p \in PayIds, lease \in PaidLeases, date \in PaymentDates, due \in DueInputs,
          method \in MethodInputs, status \in PAYMENT_STATUS_CHOICES :
           OrmCreatePayment(p, lease, date, due, method, status)
    \/ \E p \in PayIds : ReadIsLate(p)
    \/ Tick

LateSpec == Init /\ [][LateNext]_vars

----------------------------------------------------------------------------
(* Properties                                                               *)

LeaseOps == {"create", "update", "renew", "orm_create", "lease_sweep"}

\* the last operation persisted lease i (Lease.save ran to its end)
Persisted(i) == resp.op \in LeaseOps /\ i \in resp.saved

C2_DerivedOnPersist ==
    \A i \in LeaseIds :
        (Persisted(i) /\ leases[i].status # "terminated") =>
            /\ today > leases[i].end => leases[i].status = "expired"
            /\ (leases[i].start <= today /\ today <= leases[i].end)
                  => leases[i].status = "active"

\* an update that assigned a status was persisted on the end date itself
C2_Witness ==
    /\ resp.op = "update" /\ resp.status_set /\ Persisted(1)
    /\ today = leases[1].end
    /\ leases[1].status = "active"

\* C3 as stated: right after a persist, a stored 'draft' or 'pending' lease
\* starts in the future, a stored 'active' lease has today within its dates
\* and a stored 'expired' lease has today past its end date.
C3_StatusMatchesDates ==
    \A i \in LeaseIds :
        Persisted(i) =>
            /\ leases[i].status \in {"draft", "pending"} => today < leases[i].start
            /\ leases[i].status = "active"
                  => (leases[i].start <= today /\ today <= leases[i].end)
            /\ leases[i].status = "expired" => today > leases[i].end

\* C4 as stated: after a successful renew the stored status is 'active'.
C4_RenewLeavesActive ==
    (resp.op = "renew" /\ resp.code = 200) => leases[resp.id].status = "active"

\* C5 as stated: the sweep run on the end date of an active lease notifies
\* and leaves the lease it persisted stored as 'expired'.
C5_SweepExpiresOnEndDate ==
    resp.op = "lease_sweep" =>
        \A i \in resp.saved : notes.expiry[i] >= 1 /\ leases[i].status = "expired"

\* C6 as stated: on any weekday, a payment that was pending and due the day
\* before the run ends the run 'overdue' with exactly one overdue
\* notification.
C6_OneOverdueNotification ==
    resp.op = "payment_sweep" =>
        \A p \in resp.saved : payments[p].status = "overdue" /\ notes.overdue[p] = 1

C8_VersionCounts ==
    [][/\ \A i \in LeaseIds :
            leases[i]'.version =
                IF resp'.op \in LeaseOps /\ i \in resp'.saved
                THEN (IF leases[i].exists THEN leases[i].version + 1 ELSE DefaultVersion)
                ELSE leases[i].version
       /\ prop'.version =
                IF resp'.op = "property_save"
                THEN (IF prop.exists THEN prop.version + 1 ELSE DefaultVersion)
                ELSE prop.version]_vars

\* the sweep persisted a lease that had been created and renewed or updated
\* once, on an updated property
C8_Witness ==
    /\ resp.op = "lease_sweep" /\ Persisted(1)
    /\ leases[1].version = DefaultVersion + 2
    /\ prop.version = DefaultVersion + 1

\* C9 as stated: every persisted lease ends strictly after it starts.
C9_EndAfterStart ==
    \A i \in LeaseIds : leases[i].exists => leases[i].end > leases[i].start

\* C10 as stated: every persisted lease lasts between 30 and 3650 days,
\* after any sequence of create, update and renew.
C10_DurationInRange ==
    \A i \in LeaseIds :
        leases[i].exists =>
            /\ leases[i].end - leases[i].start >= MinDurationDays
            /\ leases[i].end - leases[i].start <= MaxDurationDays

\* C11 as stated: a successful renew with renewal_months = m (12 when absent)
\* stores exactly the old end date + 30 * m days, stores the supplied new_rent
\* or else the old rent, adds 1 to the version and leaves the start date
\* unchanged.
C11_RenewArithmetic ==
    [][\A i \in LeaseIds, u \in Users, months \in RenewMonthsInputs,
          new_rent \in NewRentInputs :
          (Renew(i, u, months, new_rent) /\ resp'.code = 200) =>
              /\ leases[i]'.end = leases[i].end
                     + DaysPerRenewalMonth * Get(months, DefaultRenewalMonths)
              /\ leases[i]'.rent = Get(new_rent, leases[i].rent)
              /\ leases[i]'.version = leases[i].version + 1
              /\ leases[i]'.start = leases[i].start]_vars

\* C12 (as amended): in the round trip with today fixed at 2024-06-01, a
\* lease created 2024-01-01..2024-12-31 without a status is stored 'active',
\* and renewing a lease that ends 2024-12-31 by 12 months stores the end
\* date 2025-12-26 (360 days later).
C12_RoundTrip ==
    [][\A i \in LeaseIds :
          /\ (resp'.op = "create" /\ i \in resp'.saved /\ ~resp'.status_set)
                => leases[i]'.status = "active"
          /\ (resp'.op = "renew" /\ resp'.code = 200 /\ resp'.id = i
                /\ leases[i].end = ScenarioEnd)
                => leases[i]'.end = Ymd2Ord(2025, 12, 26)]_vars

\* C12 as stated: the renewed end date is 2025-12-27.
C12_RoundTripAsStated ==
    [][\A i \in LeaseIds :
          /\ (resp'.op = "create" /\ i \in resp'.saved /\ ~resp'.status_set)
                => leases[i]'.status = "active"
          /\ (resp'.op = "renew" /\ resp'.code = 200 /\ resp'.id = i
                /\ leases[i].end = ScenarioEnd)
                => leases[i]'.end = Ymd2Ord(2025, 12, 27)]_vars

\* a lease of the scenario has just been renewed once, by 12 months
C12_Witness ==
    /\ resp.op = "renew" /\ resp.code = 200 /\ resp.id = 1
    /\ leases[1].start = ScenarioStart
    /\ leases[1].end = ScenarioEnd + DaysPerRenewalMonth * DefaultRenewalMonths
    /\ leases[1].version = DefaultVersion + 1
    /\ leases[1].status = "active"

\* C13 as stated: renew by a caller who is neither the owner of the lease's
\* property nor an admin answers 403 and leaves the lease table unchanged.
C13_RenewForbidden ==
    [][\A i \in LeaseIds, u \in Users, months \in MonthsInputs,
          new_rent \in NewRentInputs :
          (Renew(i, u, months, new_rent)
             /\ u # PropertyOwner /\ UserType(u) # "admin")
            => (resp'.code = 403 /\ leases' = leases)]_vars

\* C14 as stated: mark_paid by the property owner or an admin stores status
\* 'paid', the acting user and the time of the call (the transaction id only
\* when supplied); by anyone else it answers 403 and leaves the payments
\* unchanged.
C14_MarkPaid ==
    [][\A p \in PayIds, u \in Users, txn \in TxnInputs :
          MarkPaid(p, u, txn) =>
              IF u = PropertyOwner \/ UserType(u) = "admin"
              THEN /\ payments[p]'.status = "paid"
                   /\ payments[p]'.processed_by = u
                   /\ payments[p]'.processed_at = today
                   /\ payments[p]'.txn = Get(txn, payments[p].txn)
              ELSE resp'.code = 403 /\ payments' = payments]_vars

\* C15: in one run of the expiry sweep a lease gets an expiry notification
\* exactly when it is stored 'active' and ends 60, 30, 15, 7 or 0 days after
\* the date of the run, and then exactly one; over daily runs a lease whose
\* dates do not change gets at most 5 expiry notifications in its life.
C15_ExpiryNotifications ==
    [][\A i \in LeaseIds :
          /\ resp'.op = "lease_sweep" =>
                notes'.expiry[i] =
                    IF /\ leases[i].exists
                       /\ leases[i].status = "active"
                       /\ (leases[i].end - today') \in {60, 30, 15, 7, 0}
                    THEN 1 ELSE 0
          /\ sent'.life[i] <= 5]_vars

\* a lease has received all five notifications, the last on its end date
C15_Witness ==
    /\ resp.op = "lease_sweep"
    /\ today = leases[1].end
    /\ notes.expiry[1] = 1
    /\ sent.life[1] = 5

\* C16 as stated: however often the expiry sweep runs on one date, each
\* lease's expiry notification of that date is emitted exactly once in total:
\* never more than one per lease and date, and one after a run for an active
\* lease ending 60, 30, 15, 7 or 0 days after the date.
C16_SweepIdempotent ==
    \A i \in LeaseIds :
        /\ sent.day[i] <= 1
        /\ (resp.op = "lease_sweep" /\ leases[i].exists /\ leases[i].status = "active"
              /\ (leases[i].end - today) \in {60, 30, 15, 7, 0})
             => sent.day[i] = 1

\* C17: in a run of the payment sweep a payment that was 'overdue' before
\* the run gets an overdue notification exactly when the date of the run is
\* a Monday (weekday 0) and is left as it was; the only status a run changes
\* is that of a pending payment due the day before.
C17_WeeklyReminder ==
    [][resp'.op = "payment_sweep" =>
          \A p \in PayIds :
              /\ (payments[p].exists /\ payments[p].status = "overdue")
                    => /\ (notes'.overdue[p] >= 1) <=> (Weekday(today) = 0)
                       /\ payments[p]' = payments[p]
              /\ payments[p]'.status # payments[p].status
                    => (payments[p].status = "pending" /\ payments[p].due = today - 1)]_vars

\* a Monday run has reminded of a payment that was overdue before it
C17_Witness ==
    /\ resp.op = "payment_sweep"
    /\ Weekday(today) = 0
    /\ payments[1].status = "overdue"
    /\ payments[1].due < today - 1
    /\ notes.overdue[1] = 1

\* C18 as stated: a persist of a lease stored as 'expired' that changes
\* neither date (and assigns no status) leaves it 'expired' and emits no
\* notification; a lease persist emits a notification only on the initial
\* create.
C18_ExpiredStaysExpired ==
    [][\A i \in LeaseIds :
          /\ (/\ leases[i].exists /\ leases[i].status = "expired"
              /\ resp'.op \in LeaseOps /\ i \in resp'.saved /\ ~resp'.status_set
              /\ leases[i]'.start = leases[i].start
              /\ leases[i]'.end = leases[i].end)
                => (leases[i]'.status = "expired" /\ notes' = NoNotes)
          /\ notes'.created[i] >= 1 => resp'.op \in {"create", "orm_create"}]_vars

\* C19: the occupancy rate read on date today is 0 when total_units <= 0;
\* otherwise it lies in [0, 100], is 100 when the n leases stored 'active'
\* with start <= today <= end are at least as many as the units, and else is
\* 100 * n / total_units to the nearest hundredth; 1 such lease on 5 units
\* gives 20.00. (The value is held in hundredths of a percent.)
C19_OccupancyRate ==
    resp.op = "occupancy_rate" =>
        LET n == Cardinality({i \in LeaseIds :
                     /\ leases[i].exists /\ leases[i].status = "active"
                     /\ leases[i].start <= today /\ today <= leases[i].end})
            u == prop.units
            r == resp.value
        IN  /\ resp.code = 200
            /\ u <= 0 => r = 0
            /\ u > 0 =>
                 /\ r >= 0 /\ r <= 10000
                 /\ n >= u => r = 10000
                 /\ n < u => (2 * (r * u - 10000 * n) <= u /\ 2 * (10000 * n - r * u) <= u)
            /\ (n = 1 /\ u = 5) => r = 2000

\* one lease out of three units is active today, next to a lease stored
\* 'active' that has not started: 33.33 percent
C19_Witness ==
    /\ resp.op = "occupancy_rate"
    /\ prop.units = 3
    /\ resp.value = 3333
    /\ \E i \in LeaseIds : leases[i].status = "active" /\ leases[i].start > today

\* C20: the monthly income read on date today is the sum of monthly_rent
\* over the leases stored 'active' with start <= today <= end; it is never
\* negative and is 0 when there is no such lease.
C20_MonthlyIncome ==
    resp.op = "monthly_income" =>
        LET rows == {i \in LeaseIds :
                        /\ leases[i].exists /\ leases[i].status = "active"
                        /\ leases[i].start <= today /\ today <= leases[i].end}
        IN  /\ resp.code = 200
            /\ resp.value >= 0
            /\ rows = {} => resp.value = 0
            /\ \A i \in rows : rows = {i} => resp.value = leases[i].rent
            /\ \A i, j \in rows :
                   (i # j /\ rows = {i, j}) => resp.value = leases[i].rent + leases[j].rent
            /\ \A i, j, k \in rows :
                   (i # j /\ i # k /\ j # k /\ rows = {i, j, k})
                     => resp.value = leases[i].rent + leases[j].rent + leases[k].rent

\* two leases are active today and their rents are added up
C20_Witness ==
    /\ resp.op = "monthly_income"
    /\ Cardinality({i \in LeaseIds : leases[i].status = "active"
                      /\ leases[i].start <= today /\ today <= leases[i].end}) = 2
    /\ resp.value = leases[1].rent + leases[2].rent
    /\ leases[1].rent # leases[2].rent
\* C21 as stated: a create or an update through the API whose lease (the
\* dates of the request, for an update the stored date where the request
\* names none) has end <= start or a duration outside 30..3650 days, or whose
\* request carries a negative monthly_rent or a renewal_notice_days outside
\* 0..365, is answered with a 400-class code and writes nothing.
C21_InvalidRejected ==
    [][\A i \in LeaseIds, data \in ValidationBodies :
          LET known == leases[i].exists \/ (Has(data.start) /\ Has(data.end))
              start == Get(data.start, leases[i].start)
              end == Get(data.end, leases[i].end)
              invalid ==
                  \/ known /\ end <= start
                  \/ known /\ end - start < MinDurationDays
                  \/ known /\ end - start > MaxDurationDays
                  \/ Has(data.rent) /\ data.rent[1] < 0
                  \/ Has(data.notice) /\ data.notice[1] \notin 0..MaxRenewalNoticeDays
          IN  (invalid /\ (\/ ApiCreateLease(i, "owner", data)
                           \/ \E partial \in BOOLEAN :
                                  ApiUpdateLease(i, "owner", partial, data)))
                  => /\ resp'.code \in 400..499
                     /\ leases' = leases]_vars

\* C22: is_late read on the date today is true exactly when the status is
\* 'overdue', or the status is 'pending' or 'failed' and today is after the
\* due date; it is false for 'paid' and 'refunded', and false for a pending
\* payment on its due date.
C22_IsLate ==
    \A p \in PayIds :
        (resp.op = "is_late" /\ resp.id = p) =>
            /\ resp.value \in {0, 1}
            /\ resp.value = 1 <=>
                   \/ payments[p].status = "overdue"
                   \/ /\ payments[p].status \in {"pending", "failed"}
                      /\ today > payments[p].due
            /\ payments[p].status \in {"paid", "refunded"} => resp.value = 0
            /\ (payments[p].status = "pending" /\ today = payments[p].due) => resp.value = 0

\* is_late has been read on the due date of a payment that is still pending
C22_Witness ==
    /\ resp.op = "is_late"
    /\ payments[resp.id].status = "pending"
    /\ today = payments[resp.id].due
    /\ resp.value = 0

\* C23: days_remaining read on the date today is max(0, lease_end_date -
\* today) in days: never negative, 0 for an end date in the past, and 0,
\* returned normally, when the end date is missing or is not a date.
C23_DaysRemaining ==
    resp.op = "days_remaining" =>
        LET end == resp.arg[1]
        IN  /\ resp.code = 200
            /\ resp.value >= 0
            /\ (end # NoneDate /\ ~end.isstr) =>
                   /\ end.ord >= today => resp.value = end.ord - today
                   /\ end.ord < today => resp.value = 0
            /\ (end = NoneDate \/ end.isstr) => resp.value = 0

\* days_remaining has been read on a lease whose end date is in the past
C23_Witness ==
    /\ resp.op = "days_remaining"
    /\ resp.arg[1] # NoneDate
    /\ ~resp.arg[1].isstr
    /\ resp.arg[1].ord < today
    /\ resp.value = 0

\* C24 as stated: no two distinct leases (of the one property) hold the same
\* tenant and the same lease_start_date, whatever the tenant column holds,
\* NULL included.
C24_UniqueTriple ==
    \A i, j \in LeaseIds :
        (i # j /\ leases[i].exists /\ leases[j].exists) =>
            ~(leases[i].tenant = leases[j].tenant /\ leases[i].start = leases[j].start)

\* C25: there is at most one payment row per (lease, payment_date), and the
\* create of a second payment for a lease and payment date that already have
\* a row is rejected and leaves the table as it was.
C25_OnePaymentPerCycle ==
    [][/\ \A p, q \in PayIds :
             (p # q /\ payments'[p].exists /\ payments'[q].exists) =>
                 ~(payments'[p].lease = payments'[q].lease
                     /\ payments'[p].date = payments'[q].date)
       /\ \A p \in PayIds, lease \in LeaseIds, date \in BillingDates,
            due \in {Day0, Day0 + 1}, method \in MethodInputs,
            status \in {DefaultPaymentStatus, "paid"} :
             (/\ OrmCreatePayment(p, lease, date, due, method, status)
              /\ \E q \in PayIds : /\ payments[q].exists
                                    /\ payments[q].lease = lease
                                    /\ payments[q].date = date)
                 => /\ payments' = payments
                    /\ resp'.code >= 400]_vars

\* the create of a second payment for the lease and payment date of a stored
\* payment has just been refused
C25_Witness ==
    /\ resp.op = "orm_create_payment"
    /\ resp.code = 500
    /\ resp.saved = {}
    /\ \E q \in PayIds : payments[q].exists
    /\ ~payments[resp.id].exists

\* C26 as stated: every successful update persist adds exactly 1 to the
\* stored version, whatever other updaters of the same lease did between its
\* load and its persist; so after n such persists the version is the initial
\* version + n.
C26_VersionCountsUpdates ==
    [][\A w \in Workers, i \in LeaseIds, data \in ScenarioPatchBodies :
          (/\ inflight[w].todo = {i}
           /\ SaveUpdate(w, TRUE, data)
           /\ resp'.code = 200)
              => leases'[i].version = leases[i].version + 1]_vars

\* C27 as stated: a payment stored as 'paid' is not set to 'overdue' by a
\* step of the payment sweep, and the step does not clear its processed_at,
\* processed_by or transaction_id, however the sweep is interleaved with the
\* request that paid it.
C27_PaidSurvivesSweep ==
    [][\A w \in Workers, p \in PayIds :
          (PaymentSweepSave(w) /\ payments[p].exists /\ payments[p].status = "paid")
              => /\ payments'[p].status # "overdue"
                 /\ payments'[p].processed_at = payments[p].processed_at
                 /\ payments'[p].processed_by = payments[p].processed_by
                 /\ payments'[p].txn = payments[p].txn]_vars

\* C28 as stated: a renew that has completed is not lost to the expiry task
\* working on the same lease: when the stored row is the one a renew has
\* answered with, a step of the task leaves its lease_end_date (old end +
\* 30 * m days) and its monthly_rent as the renew stored them.
C28_RenewNotLost ==
    [][\A w, v \in Workers, i \in LeaseIds :
          (/\ LeaseSweepSave(w)
           /\ inflight[v].op = "renewed"
           /\ i \in DOMAIN inflight[v].rows
           /\ leases[i] = inflight[v].rows[i])
              => /\ leases'[i].end = leases[i].end
                 /\ leases'[i].rent = leases[i].rent]_vars

\* C29 as stated: with the expiry task run on every date and nothing else
\* touching the lease, a lease stored as 'active' whose lease_end_date has
\* passed is eventually stored as 'expired'.
C29_EventuallyExpired ==
    \A i \in LeaseIds :
        (leases[i].exists /\ leases[i].status = "active" /\ leases[i].end < today)
            ~> (leases[i].status = "expired")

====
